---------------------------- MODULE Spec2Model ----------------------------
(***************************************************************************)
(* A model of dnppy's convert/nongrid_data_class.py: the nongrid_data      *)
(* class (its constructor, the static method distance and the method       *)
(* sample_by_grid).                                                        *)
(*                                                                         *)
(* Numbers.  The program computes in IEEE doubles; the model computes in   *)
(* fixed point, within TLC's 32-bit integers:                              *)
(*   - angles in degrees are counted in ticks of 1/20 degree; the inputs   *)
(*     are multiples of 1/10 degree, so that x / 2 is exact;               *)
(*   - angles in radians are counted in units of 1/10000 rad;              *)
(*   - sines and cosines are counted in units of 1/1000;                   *)
(*   - lengths are metres.                                                 *)
(* A double that is not zero is never rounded to zero by the model: in     *)
(* doubles sin(pi) = 1.2e-16 and cos(pi / 2) = 6.1e-17, and the program's  *)
(* results depend on just that.                                            *)
(***************************************************************************)
EXTENDS Integers, Sequences, FiniteSets, TLC

VARIABLES
    self,   \* the instance's attributes (its __dict__): name -> value
    pc,     \* "new": no instance yet; "constructed"; "failed": __init__ raised
    call,   \* the last call: [op, args, raised, value]
    prev    \* the call before it

vars == <<self, pc, call, prev>>

-----------------------------------------------------------------------------
(* Bounds and input sets *)

MaxLen == 2

TicksPerDeg == 20

Deg(d) == d * TicksPerDeg

LatVals == {Deg(-10), Deg(10)}

LonVals == {Deg(-180), Deg(-20), Deg(180)}

DataVals == {7}

\* the points distance is called with
PointLats == {Deg(0), Deg(10)}

PointLons == {Deg(-180), Deg(0), Deg(1), Deg(180)}

ResolutionVals == {-30, 0, 30}

\* array-like inputs: r x c matrices (a sequence of rows) of at most MaxLen
\* elements, and the empty array
Matrices(V) ==
    {<<>>} \cup
    UNION {UNION {[1..r -> [1..c -> V]] : c \in 1..(MaxLen \div r)} :
           r \in 1..MaxLen}

-----------------------------------------------------------------------------
(* Values *)

None == "None"

NoException == "no exception"

\* raise Exception("inputs are not the same dimensions!")
ShapeMismatch == "Exception: inputs are not the same dimensions!"

\* min() of an empty array
ValueError == "ValueError"

ZeroDivisionError == "ZeroDivisionError"

\* numpy.meshgrid[...]: a function is not subscriptable
TypeError == "TypeError"

ProjectionDomainError == "ProjectionDomainError"

NoCall == [op |-> "none", args |-> <<>>, raised |-> NoException, value |-> None]

NoAttributes == [n \in {} |-> None]

-----------------------------------------------------------------------------
(* Arithmetic helpers *)

Abs(x) == IF x >= 0 THEN x ELSE -x

Max2(a, b) == IF a >= b THEN a ELSE b

\* n / d rounded up, for n >= 0: a positive quotient stays positive
CeilDiv(n, d) == (n + d - 1) \div d

\* n / d rounded to the nearest, away from zero
RoundDiv(n, d) == IF n >= 0 THEN (2 * n + d) \div (2 * d)
                  ELSE -((2 * (-n) + d) \div (2 * d))

\* int(n / d): truncation toward zero
IntDiv(n, d) == IF n >= 0 THEN n \div d ELSE -((-n) \div d)

\* x / 2 on a double: exact, and symmetric about zero
Half(x) == IF x >= 0 THEN x \div 2 ELSE -((-x) \div 2)

RECURSIVE ISqrt(_)
ISqrt(n) ==
    IF n < 2 THEN n
    ELSE LET s == 2 * ISqrt(n \div 4)
         IN  IF (s + 1) * (s + 1) > n THEN s ELSE s + 1

RECURSIVE SeqMin(_)
SeqMin(s) ==
    IF Len(s) = 1 THEN s[1]
    ELSE LET m == SeqMin(Tail(s)) IN IF s[1] <= m THEN s[1] ELSE m

RECURSIVE SeqMax(_)
SeqMax(s) ==
    IF Len(s) = 1 THEN s[1]
    ELSE LET m == SeqMax(Tail(s)) IN IF s[1] >= m THEN s[1] ELSE m

\* numpy.reshape(m, -1): the elements in row-major order
RECURSIVE reshape(_)
reshape(m) == IF m = <<>> THEN <<>> ELSE Head(m) \o reshape(Tail(m))

-----------------------------------------------------------------------------
(* math *)

\* pi, in 1/10000 rad
Pi == 31416

HalfPi == 15708

\* the unit of a sine: 1/1000
SinScale == 1000

\* math.radians: ticks of 1/20 degree to 1/10000 rad (pi / 180 / 20 =
\* 0.00087266 rad a tick)
radians(x) == RoundDiv(x * 87266, 10000)

\* sin x for 0 <= x <= pi, by Bhaskara's rational approximation
\* 16 x (pi - x) / (5 pi^2 - 4 x (pi - x)), in units of 1/1000
SinApprox(x) ==
    LET p == (x * (Pi - x)) \div 10000
    IN  (16 * p * SinScale) \div (493480 - 4 * p)

\* math.sin on [-pi, pi]: odd, and zero only at zero (sin(pi) is 1.2e-16 in
\* doubles)
sin(x) ==
    IF x = 0 THEN 0
    ELSE IF x > 0 THEN Max2(1, SinApprox(x))
    ELSE -Max2(1, SinApprox(-x))

\* math.cos on [-pi/2, pi/2]: never zero (cos(pi/2) is 6.1e-17 in doubles)
cos(x) == Max2(1, SinApprox(HalfPi - x))

\* math.sqrt of a value in units of 1/1000000, in units of 1/1000
sqrt(a) == ISqrt(a)

\* math.atan2(y, x) for y >= 0 and x = 0, the arguments the program passes:
\* pi / 2, and 0 at the origin
atan2(y, x) ==
    CASE x = 0 /\ y = 0 -> 0
      [] x = 0 /\ y > 0 -> HalfPi

-----------------------------------------------------------------------------
(* nongrid_data.distance *)

\* radius of earth in meters
R == 6371000

\* the variables mixed up: del_lon taken from lat0
distance_mixed(lat0, lon0, lat1, lon1) ==
    LET rlat0 == radians(lat0)
        rlat1 == radians(lat1)
        rlon1 == radians(lon1)
        del_lat == rlat1 - rlat0
        del_lon == rlon1 - rlat0
        a == (sin(Half(del_lat)) * sin(Half(del_lat)))
             + CeilDiv(CeilDiv(cos(rlat0) * cos(rlat1), SinScale)
                       * (sin(Half(del_lon)) * sin(Half(del_lon))), SinScale)
        c == 2 * atan2(sqrt(a), sqrt(1 - 1))
    IN  ((R \div 1000) * c) \div 10

\* the distance in metres; a is in units of 1/1000000, c in 1/10000 rad
distance(lat0, lon0, lat1, lon1) ==
    LET rlat0 == radians(lat0)
        rlon0 == radians(lon0)
        rlat1 == radians(lat1)
        rlon1 == radians(lon1)
        del_lat == rlat1 - rlat0
        del_lon == rlon1 - rlon0
        a == (sin(Half(del_lat)) * sin(Half(del_lat)))
             + CeilDiv(CeilDiv(cos(rlat0) * cos(rlat1), SinScale)
                       * (sin(Half(del_lon)) * sin(Half(del_lon))), SinScale)
        c == 2 * atan2(sqrt(a), sqrt(1 - 1))
    IN  ((R \div 1000) * c) \div 10

-----------------------------------------------------------------------------
(* LLtoUTM, imported by `from LLtoUTM import *`: modelled by its contract *)

\* metres to a tick of 1/20 degree on the sphere
MetresPerTick == 5560

\* the planar coordinates of (lat, lon) in the given zone and hemisphere, or
\* a failure at the poles
LLtoUTM(lat, lon, utm_zone, hemisphere) ==
    IF Abs(lat) = Deg(90)
    THEN [ok |-> FALSE, x |-> 0, y |-> 0]
    ELSE [ok |-> TRUE,
          x  |-> 500000 + MetresPerTick * (lon - Deg(6 * utm_zone - 183)),
          y  |-> MetresPerTick * lat
                 + (IF hemisphere = "S" THEN 10000000 ELSE 0)]

-----------------------------------------------------------------------------
(* nongrid_data.__init__ *)

\* the check compares lat with lon only
same_dimensions_two(s) == Len(s.lat) = Len(s.lon)

\* len(self.lat) == len(self.lon) == len(self.data)
same_dimensions(s) == Len(s.lat) = Len(s.lon) /\ Len(s.lon) = Len(s.data)

\* self.max_lon - self.min_lon / 2
mid(max, min) == max - Half(min)

\* int(((mid_lon - 3 + 180) / 6) + 1)
utm_zone_of(mid_lon) ==
    IntDiv(mid_lon - Deg(3) + Deg(180) + Deg(6), Deg(6))

\* ((W * H) / n) ** 0.5, in metres (through km, to stay within 32 bits)
resolution_of(W, H, n) == ISqrt(((W \div 1000) * (H \div 1000)) \div n) * 1000

\* the bounding box, the midpoint, the zone and the hemisphere
box_attributes(s) ==
    LET min_lat == SeqMin(s.lat)
        max_lat == SeqMax(s.lat)
        min_lon == SeqMin(s.lon)
        max_lon == SeqMax(s.lon)
        mid_lon == mid(max_lon, min_lon)
        mid_lat == mid(max_lat, min_lat)
    IN  [min_lat |-> min_lat, max_lat |-> max_lat,
         min_lon |-> min_lon, max_lon |-> max_lon,
         mid_lon |-> mid_lon, mid_lat |-> mid_lat,
         utm_zone |-> utm_zone_of(mid_lon),
         hemisphere |-> IF mid_lat < 0 THEN "S" ELSE "N"]

\* the attributes __init__ leaves, and what it raises
init(lat, lon, data) ==
    LET s0 == [lat |-> reshape(lat), lon |-> reshape(lon),
               data |-> reshape(data)]
    IN
    IF ~same_dimensions(s0) THEN [self |-> s0, raised |-> ShapeMismatch]
    ELSE IF Len(s0.lat) = 0 \/ Len(s0.lon) = 0
    THEN [self |-> s0, raised |-> ValueError]
    ELSE
    LET s1 == box_attributes(s0) @@ s0
        lo == LLtoUTM(s1.min_lat, s1.min_lon, s1.utm_zone, s1.hemisphere)
        hi == LLtoUTM(s1.max_lat, s1.max_lon, s1.utm_zone, s1.hemisphere)
        W  == distance(s1.min_lat, s1.min_lon, s1.max_lat, s1.min_lon)
        H  == distance(s1.min_lat, s1.min_lon, s1.min_lat, s1.max_lon)
    IN
    IF ~lo.ok THEN [self |-> s1, raised |-> ProjectionDomainError]
    ELSE IF ~hi.ok
    THEN [self |-> [min_utmx |-> lo.x, min_utmy |-> lo.y] @@ s1,
          raised |-> ProjectionDomainError]
    ELSE
    LET s2 == [min_utmx |-> lo.x, min_utmy |-> lo.y,
               max_utmx |-> hi.x, max_utmy |-> hi.y] @@ s1
    IN
    IF Len(s2.data) = 0 THEN [self |-> s2, raised |-> ZeroDivisionError]
    ELSE [self |-> [est_resolution |-> resolution_of(W, H, Len(s2.data))]
                   @@ s2,
          raised |-> NoException]

-----------------------------------------------------------------------------
(* The calls *)

Init ==
    /\ self = NoAttributes
    /\ pc = "new"
    /\ call = NoCall
    /\ prev = NoCall

\* nongrid_data(lat, lon, data): the constructor
nongrid_data(lat, lon, data) ==
    /\ pc = "new"
    /\ LET r == init(lat, lon, data)
       IN  /\ self' = r.self
           /\ pc' = IF r.raised = NoException THEN "constructed" ELSE "failed"
           /\ call' = [op |-> "__init__", args |-> <<>>,
                       raised |-> r.raised, value |-> None]
    /\ prev' = call

\* nongrid_data.distance(lat0, lon0, lat1, lon1): a static method
call_distance(lat0, lon0, lat1, lon1) ==
    /\ call' = [op |-> "distance", args |-> <<lat0, lon0, lat1, lon1>>,
                raised |-> NoException,
                value |-> distance(lat0, lon0, lat1, lon1)]
    /\ prev' = call
    /\ UNCHANGED <<self, pc>>

\* the method also stores the resolution it was given
sample_by_grid_storing(resolution) ==
    /\ pc = "constructed"
    /\ call' = [op |-> "sample_by_grid", args |-> <<resolution>>,
                raised |-> TypeError, value |-> None]
    /\ prev' = call
    /\ self' = [self EXCEPT !.est_resolution = resolution]
    /\ UNCHANGED pc

\* self.sample_by_grid(resolution): numpy.meshgrid[...] subscripts a
\* function, which raises before anything is built or returned
sample_by_grid(resolution) ==
    /\ pc = "constructed"
    /\ call' = [op |-> "sample_by_grid", args |-> <<resolution>>,
                raised |-> TypeError, value |-> None]
    /\ prev' = call
    /\ UNCHANGED <<self, pc>>

Next ==
    \/ \E lat \in Matrices(LatVals), lon \in Matrices(LonVals),
          data \in Matrices(DataVals) : nongrid_data(lat, lon, data)
    \/ \E lat0 \in {Deg(0)}, lon0 \in {Deg(0)},
          lat1 \in {Deg(0), Deg(10)}, lon1 \in {Deg(0), Deg(1)} :
          call_distance(lat0, lon0, lat1, lon1)
    \/ \E resolution \in ResolutionVals : sample_by_grid(resolution)

Spec == Init /\ [][Next]_vars

\* the static method alone, over a grid of points
NextDistance ==
    \E lat0 \in PointLats, lon0 \in PointLons,
       lat1 \in PointLats, lon1 \in PointLons :
       call_distance(lat0, lon0, lat1, lon1)

SpecDistance == Init /\ [][NextDistance]_vars

-----------------------------------------------------------------------------
(* The claims *)

Constructed == pc = "constructed"

\* a call of the constructor has just returned or raised
AfterInit == call.op = "__init__"

EqualLengths ==
    Len(self.lat) = Len(self.lon) /\ Len(self.lon) = Len(self.data)

AllSame(s) == \A i, j \in 1..Len(s) : s[i] = s[j]

\* N = 0, or a bounding box of zero extent
Degenerate == Len(self.lat) = 0 \/ AllSame(self.lat) \/ AllSame(self.lon)

\* C1: from equal-length, non-degenerate inputs the construction succeeds
\* and the stored midpoint lies inside the bounding box.
C1_MidpointInsideBox ==
    (AfterInit /\ EqualLengths /\ ~Degenerate) =>
        /\ Constructed
        /\ self.min_lat <= self.mid_lat /\ self.mid_lat <= self.max_lat
        /\ self.min_lon <= self.mid_lon /\ self.mid_lon <= self.max_lon

\* C2: the zone stored at construction is floor((midLon + 180) / 6) + 1,
\* midLon being the centre longitude of the bounding box.
C2_ZoneOfCentre ==
    Constructed =>
        self.utm_zone =
            ((Half(self.min_lon + self.max_lon) + Deg(180)) \div Deg(6)) + 1

\* C3: the zone of a point set built from longitudes in [-180, 180] is in
\* 1..60.
C3_ZoneInRange ==
    Constructed => self.utm_zone \in 1..60

SwapPoints(args) == <<args[3], args[4], args[1], args[2]>>

\* C4: distance is 0 between a point and itself, and two calls with the
\* points exchanged return the same distance.
C4_DistanceZeroAndSymmetric ==
    call.op = "distance" =>
        /\ (call.args[1] = call.args[3] /\ call.args[2] = call.args[4])
               => call.value = 0
        /\ (prev.op = "distance" /\ prev.args = SwapPoints(call.args))
               => prev.value = call.value

\* C4's case: two calls on distinct points, exchanged.
C4_Witness ==
    /\ call.op = "distance" /\ prev.op = "distance"
    /\ prev.args = SwapPoints(call.args)
    /\ call.args # prev.args
    /\ call.value > 0
    /\ prev.value = call.value

\* C5: distance(0, 0, 0, 1) is within 1% of 111195 m.
C5_OneDegreeAtEquator ==
    (call.op = "distance" /\ call.args = <<Deg(0), Deg(0), Deg(0), Deg(1)>>)
        => 100 * Abs(call.value - 111195) <= 111195

\* C6: the constructor raises the shape mismatch exactly when the flattened
\* lengths are not all equal, and raises it before any derived attribute is
\* set.
C6_ShapeMismatch ==
    AfterInit =>
        /\ (call.raised = ShapeMismatch) <=> ~EqualLengths
        /\ (call.raised = ShapeMismatch)
               => DOMAIN self = {"lat", "lon", "data"}

\* C6's case: as many latitudes as longitudes, fewer values, and the raise.
C6_Witness ==
    /\ AfterInit
    /\ Len(self.lat) = 2 /\ Len(self.lon) = 2 /\ Len(self.data) = 1
    /\ call.raised = ShapeMismatch
    /\ pc = "failed"

\* C7: the construction fails on N = 0 and on a bounding box of zero
\* extent, and no point set with an estimated resolution of 0 is produced.
C7_DegenerateInputRejected ==
    /\ (AfterInit /\ EqualLengths /\ Degenerate) => pc = "failed"
    /\ Constructed => self.est_resolution > 0

\* C8: once the point set is constructed no call changes any of its
\* attributes.
C8_ReadOnlyAfterConstruction ==
    [][Constructed => self' = self]_vars

\* C8's case: a constructed point set on which distance and then
\* sample_by_grid were called.
C8_Witness ==
    /\ Constructed
    /\ prev.op = "distance"
    /\ call.op = "sample_by_grid"
    /\ "est_resolution" \in DOMAIN self

\* C9: sample_by_grid with a resolution <= 0 fails with InvalidResolution,
\* and with a resolution > 0 it does not fail and returns a grid.
C9_ResolutionChecked ==
    call.op = "sample_by_grid" =>
        IF call.args[1] <= 0
        THEN call.raised = "InvalidResolution"
        ELSE call.raised = NoException /\ call.value # None

\* C10: for a resolution > 0 the returned grid has at least one row and one
\* column, and the per-cell counts sum to the number of points.
C10_GridCoversPoints ==
    (call.op = "sample_by_grid" /\ call.args[1] > 0) =>
        /\ call.value # None
        /\ call.value.rows >= 1
        /\ call.value.cols >= 1
        /\ call.value.counted = Len(self.data)

=============================================================================
